---------------------------- MODULE Spec2Model ----------------------------
(***************************************************************************)
(* Model of the standalone JSON-RPC server of mcp-ai-poc                   *)
(* (src/src/mcp_poc/standalone_server.py) and of its lazily built          *)
(* completion-provider handle (src/src/mcp_poc/ai_tools.py).               *)
(*                                                                         *)
(* JSON values are tagged records [t, v]:                                  *)
(*   null   [t |-> "null", v |-> "null"]                                   *)
(*   bool   [t |-> "bool", v |-> "true"]                                   *)
(*   number [t |-> "num",  v |-> "5"]      (v is the decimal text)         *)
(*   string [t |-> "str",  v |-> s]                                        *)
(*   array  [t |-> "arr",  v |-> "[1]"]    (v is the element text)         *)
(*   object [t |-> "obj",  v |-> f]        (f maps keys to JSON values)    *)
(* Python values that the handlers build are TLA+ records and sequences.   *)
(***************************************************************************)
EXTENDS Integers, Sequences, FiniteSets, TLC

VARIABLES
    pc,             \* position of run: "read", "dispatch", "provider", "done"
    line,           \* the input line being handled (NoLine before the first)
    resp,           \* the envelope written for that line, or NoResp
    stdout,         \* the envelopes printed so far, in order
    nRead,          \* number of input lines consumed by readline
    exit,           \* how run ended: "none", "eof", "interrupt", "error"
    client,         \* openai_client._client: None or the handle
    env,            \* os.environ entry OPENAI_API_KEY
    ctorCalls,      \* the api_key of every OpenAI(...) construction, in order
    lastGet,        \* the get_client call made for the current line, or NoGet
    invoked,        \* the handler calls made for the current line: which
                    \* handler of the routing table, and with what params
    providerCalls,  \* chat.completions.create calls made for the current line
    pending,        \* the tools/call awaiting the provider, or NoPending
    outcome,        \* what the provider call of the current line did, or NoOutcome
    held,           \* the catalog object last returned by a list handler, as
                    \* its caller has left it, or NoHeld
    handlers        \* the keys of self.handlers, the routing table

vars == <<pc, line, resp, stdout, nRead, exit, client, env, ctorCalls,
          lastGet, invoked, providerCalls, pending, outcome, held, handlers>>

\* ------------------------------------------------------------------ bounds
MaxLines == 2
MaxCatalogLines == 3
MaxCredentialLines == 3

\* -------------------------------------------------------------- JSON values
JNull == [t |-> "null", v |-> "null"]
JTrue == [t |-> "bool", v |-> "true"]
JNum(s) == [t |-> "num", v |-> s]
JStr(s) == [t |-> "str", v |-> s]
JArr(s) == [t |-> "arr", v |-> s]
JObj(f) == [t |-> "obj", v |-> f]
EmptyDict == JObj(<<>>)

\* ----------------------------------------------------------- Python helpers
\* type(x).__name__ of the Python value json.loads builds
PyTypeName(x) ==
    CASE x.t = "null" -> "NoneType"
      [] x.t = "bool" -> "bool"
      [] x.t = "num"  -> "int"
      [] x.t = "str"  -> "str"
      [] x.t = "arr"  -> "list"
      [] x.t = "obj"  -> "dict"

\* str(x), which is also what an f-string or str.format puts for x
PyStr(x) ==
    CASE x.t = "null" -> "None"
      [] x.t = "bool" -> (IF x.v = "true" THEN "True" ELSE "False")
      [] x.t = "num"  -> x.v
      [] x.t = "str"  -> x.v
      [] x.t = "arr"  -> x.v
      [] x.t = "obj" /\ DOMAIN x.v = {} -> "{}"

\* lists and dicts are unhashable: `x in some_dict` raises TypeError
Hashable(x) == x.t \notin {"arr", "obj"}

\* an exception value: its class and str(e)
Exc(type, msg) == [type |-> type, msg |-> msg]
Raise(type, msg) == [ok |-> FALSE, exc |-> Exc(type, msg)]
Return(val) == [ok |-> TRUE, val |-> val]

AttributeErrorGet(x) ==
    Raise("AttributeError",
          "'" \o PyTypeName(x) \o "' object has no attribute 'get'")
UnhashableError(x) ==
    Raise("TypeError", "unhashable type: '" \o PyTypeName(x) \o "'")

\* d.get(key, default) where d is known to be a dict
Get(d, key, default) == IF key \in DOMAIN d.v THEN d.v[key] ELSE default

\* sub in s, for Python strings
Contains(s, sub) ==
    \/ Len(sub) = 0
    \/ \E i \in 1..(Len(s) - Len(sub) + 1) : SubSeq(s, i, i + Len(sub) - 1) = sub

\* --------------------------------------------------- ai_tools.OpenAIClient
EnvUnset == [set |-> FALSE, val |-> ""]
EnvVal(s) == [set |-> TRUE, val |-> s]
NoneClient == [built |-> FALSE, api_key |-> ""]
Handle(key) == [built |-> TRUE, api_key |-> key]

KeyErrorText == "OPENAI_API_KEY environment variable must be set"

\* mutant: only an unset variable counts as missing (`api_key is None`)
KeyMissingUnsetOnly(e) == ~e.set

\* `not api_key`: os.getenv gave None or the empty string
KeyMissing(e) == ~e.set \/ e.val = ""

\* mutant: no `if self._client is None` guard, every call builds a client
GetClientNoCache(cl, e) ==
    IF KeyMissing(e)
    THEN [ok |-> FALSE, exc |-> Exc("ValueError", KeyErrorText),
          client |-> cl, built |-> <<>>]
    ELSE [ok |-> TRUE, val |-> Handle(e.val),
          client |-> Handle(e.val), built |-> <<e.val>>]

\* mutant: a failed get_client leaves a mark on the client object, and every
\* later call fails on it
GetClientSticky(cl, e) ==
    IF ~cl.built
    THEN IF KeyMissing(e) \/ cl.api_key = "failed"
         THEN [ok |-> FALSE, exc |-> Exc("ValueError", KeyErrorText),
               client |-> [built |-> FALSE, api_key |-> "failed"],
               built |-> <<>>]
         ELSE [ok |-> TRUE, val |-> Handle(e.val),
               client |-> Handle(e.val), built |-> <<e.val>>]
    ELSE [ok |-> TRUE, val |-> cl, client |-> cl, built |-> <<>>]

\* get_client on a client object whose _client is cl, with environment e:
\* the outcome, the new _client and the constructions made
GetClient(cl, e) ==
    IF ~cl.built
    THEN IF KeyMissing(e)
         THEN [ok |-> FALSE, exc |-> Exc("ValueError", KeyErrorText),
               client |-> cl, built |-> <<>>]
         ELSE [ok |-> TRUE, val |-> Handle(e.val),
               client |-> Handle(e.val), built |-> <<e.val>>]
    ELSE [ok |-> TRUE, val |-> cl, client |-> cl, built |-> <<>>]

\* ------------------------------------------------------------ the catalogs
ServerName == "mcp-ai-poc"

InitializeResult ==
    [protocolVersion |-> "2024-11-05",
     serverInfo |-> [name |-> ServerName, version |-> "1.0.0"],
     capabilities |->
        [prompts |-> [listChanged |-> FALSE],
         tools |-> [listChanged |-> FALSE],
         resources |-> [listChanged |-> FALSE, subscribe |-> FALSE]]]

PromptArg(n, req) == [name |-> n, required |-> req]

\* mutant: explain_concept is not listed
PromptCatalogNoExplain ==
    << [name |-> "analyze_code",
        description |-> "Analyze code for quality, security, and best practices",
        arguments |-> <<PromptArg("code", TRUE), PromptArg("language", FALSE)>>],
       [name |-> "generate_documentation",
        description |-> "Generate comprehensive documentation for code",
        arguments |-> <<PromptArg("code", TRUE), PromptArg("style", FALSE)>>],
       [name |-> "code_review",
        description |-> "Perform a comprehensive code review",
        arguments |-> <<PromptArg("code", TRUE), PromptArg("focus", FALSE)>>] >>

PromptCatalog ==
    << [name |-> "analyze_code",
        description |-> "Analyze code for quality, security, and best practices",
        arguments |-> <<PromptArg("code", TRUE), PromptArg("language", FALSE)>>],
       [name |-> "generate_documentation",
        description |-> "Generate comprehensive documentation for code",
        arguments |-> <<PromptArg("code", TRUE), PromptArg("style", FALSE)>>],
       [name |-> "code_review",
        description |-> "Perform a comprehensive code review",
        arguments |-> <<PromptArg("code", TRUE), PromptArg("focus", FALSE)>>],
       [name |-> "explain_concept",
        description |-> "Explain programming concepts or technologies",
        arguments |-> <<PromptArg("concept", TRUE), PromptArg("level", FALSE)>>] >>

ToolEntry(n, props, req) ==
    [name |-> n,
     inputSchema |-> [type |-> "object", properties |-> props, required |-> req]]
ToolCatalog ==
    << ToolEntry("generate_code", <<"specification", "language", "style">>,
                 <<"specification">>),
       ToolEntry("refactor_code", <<"code", "goal", "language">>, <<"code">>),
       ToolEntry("debug_code", <<"code", "error", "context">>, <<"code", "error">>),
       ToolEntry("optimize_performance", <<"code", "bottleneck", "constraints">>,
                 <<"code">>),
       ToolEntry("generate_tests", <<"code", "framework", "coverage">>, <<"code">>) >>

ResourceEntry(u, n, d) ==
    [uri |-> u, name |-> n, description |-> d, mimeType |-> "text/markdown"]
ResourceCatalog ==
    << ResourceEntry("coding-guidelines://python", "Python Coding Guidelines",
            "Comprehensive Python coding best practices and guidelines"),
       ResourceEntry("patterns://design-patterns", "Design Patterns Reference",
            "Common software design patterns with examples"),
       ResourceEntry("security://best-practices", "Security Best Practices",
            "Security guidelines for safe coding practices"),
       ResourceEntry("performance://optimization-guide",
            "Performance Optimization Guide",
            "Techniques and strategies for code optimization") >>

\* mutant: the texts of the first two resources are registered under each
\* other's uri
ResourceContentsSwapped ==
    [u \in {"coding-guidelines://python", "patterns://design-patterns",
            "security://best-practices", "performance://optimization-guide"} |->
     CASE u = "patterns://design-patterns" ->
            "# Python Coding Guidelines\n\n## Code Style\n- Follow PEP 8 for style guidelines"
       [] u = "coding-guidelines://python" ->
            "# Design Patterns Reference\n\n## Creational Patterns\n- **Singleton**: Ensure only one instance exists"
       [] u = "security://best-practices" ->
            "# Security Best Practices\n\n## Input Validation\n- Validate all user inputs"
       [] u = "performance://optimization-guide" ->
            "# Performance Optimization Guide\n\n## Profiling\n- Measure before optimizing"]

\* the opening lines of each registered resource text
ResourceContents ==
    [u \in {"coding-guidelines://python", "patterns://design-patterns",
            "security://best-practices", "performance://optimization-guide"} |->
     CASE u = "coding-guidelines://python" ->
            "# Python Coding Guidelines\n\n## Code Style\n- Follow PEP 8 for style guidelines"
       [] u = "patterns://design-patterns" ->
            "# Design Patterns Reference\n\n## Creational Patterns\n- **Singleton**: Ensure only one instance exists"
       [] u = "security://best-practices" ->
            "# Security Best Practices\n\n## Input Validation\n- Validate all user inputs"
       [] u = "performance://optimization-guide" ->
            "# Performance Optimization Guide\n\n## Profiling\n- Measure before optimizing"]

\* ------------------------------------- the framework-backed server's catalogs
\* mcp_server.py, MCPAIServer.setup_handlers: handle_list_prompts
McpPromptCatalog ==
    << [name |-> "analyze_code",
        description |-> "Analyze code for quality, security, and best practices",
        arguments |-> <<PromptArg("code", TRUE), PromptArg("language", FALSE)>>],
       [name |-> "generate_documentation",
        description |-> "Generate comprehensive documentation for code",
        arguments |-> <<PromptArg("code", TRUE), PromptArg("style", FALSE)>>],
       [name |-> "code_review",
        description |-> "Perform a comprehensive code review",
        arguments |-> <<PromptArg("code", TRUE), PromptArg("focus", FALSE)>>],
       [name |-> "explain_concept",
        description |-> "Explain programming concepts or technologies",
        arguments |-> <<PromptArg("concept", TRUE), PromptArg("level", FALSE)>>] >>

\* the names its handle_get_prompt has a branch for
McpPromptNames ==
    {"analyze_code", "generate_documentation", "code_review", "explain_concept"}

\* handle_list_tools
McpToolCatalog ==
    << ToolEntry("generate_code", <<"specification", "language", "style">>,
                 <<"specification">>),
       ToolEntry("refactor_code", <<"code", "goal", "language">>, <<"code">>),
       ToolEntry("debug_code", <<"code", "error", "context">>, <<"code", "error">>),
       ToolEntry("optimize_performance", <<"code", "bottleneck", "constraints">>,
                 <<"code">>),
       ToolEntry("generate_tests", <<"code", "framework", "coverage">>, <<"code">>) >>

\* the names its handle_call_tool has a branch for
McpToolNames ==
    {"generate_code", "refactor_code", "debug_code", "optimize_performance",
     "generate_tests"}

\* handle_list_resources: the name argument of the third Resource(...) sits
\* behind the comment sign of the line before it, so that entry has no name
McpResourceCatalog ==
    << ResourceEntry("coding-guidelines://python", "Python Coding Guidelines",
            "Comprehensive Python coding best practices and guidelines"),
       ResourceEntry("patterns://design-patterns", "Design Patterns Reference",
            "Common software design patterns with examples"),
       [uri |-> "security://best-practices",
        description |-> "Security guidelines for safe coding practices",
        mimeType |-> "text/markdown"],
       ResourceEntry("performance://optimization-guide",
            "Performance Optimization Guide",
            "Techniques and strategies for code optimization") >>

\* handle_read_resource: the opening lines of each text and its ending; each
\* literal of mcp_server.py closes on a line of its own, so the text ends
\* with a newline
McpResourceContents ==
    [u \in {"coding-guidelines://python", "patterns://design-patterns",
            "security://best-practices", "performance://optimization-guide"} |->
     CASE u = "coding-guidelines://python" ->
            "# Python Coding Guidelines\n\n## Code Style\n- Follow PEP 8 for style guidelines\n"
       [] u = "patterns://design-patterns" ->
            "# Design Patterns Reference\n\n## Creational Patterns\n- **Singleton**: Ensure only one instance exists\n"
       [] u = "security://best-practices" ->
            "# Security Best Practices\n\n## Input Validation\n- Validate all user inputs\n"
       [] u = "performance://optimization-guide" ->
            "# Performance Optimization Guide\n\n## Profiling\n- Measure before optimizing\n"]

\* a template is a sequence of literal texts <<"L", text>> and placeholders
\* <<"P", name>>; the literals keep the head of each source segment, without
\* the code fences
Lit(s) == <<"L", s>>
Ph(n) == <<"P", n>>
PromptTemplates ==
    [n \in {"analyze_code", "generate_documentation", "code_review",
            "explain_concept"} |->
     CASE n = "analyze_code" ->
            << Lit("Analyze the following "), Ph("language"),
               Lit(" code for:\n1. Code quality and best practices\nCode to analyze:\n"),
               Ph("language"), Lit("\n"), Ph("code"),
               Lit("\n\n\nProvide a detailed analysis") >>
       [] n = "generate_documentation" ->
            << Lit("Generate comprehensive documentation for the following code using "),
               Ph("style"), Lit(" style:\n\nCode:\n\n"), Ph("code"),
               Lit("\n\n\nInclude:\n1. Function/class descriptions\nUse "),
               Ph("style"), Lit(" documentation format.") >>
       [] n = "code_review" ->
            << Lit("Perform a comprehensive code review with focus on "),
               Ph("focus"), Lit(":\n\nCode to review:\n\n"), Ph("code"),
               Lit("\n\n\nReview criteria:\nFocus area: "), Ph("focus"),
               Lit("\n\nProvide constructive feedback") >>
       [] n = "explain_concept" ->
            << Lit("Explain the programming concept \""), Ph("concept"),
               Lit("\" at a "), Ph("level"),
               Lit(" level.\n\nInclude:\n1. Clear definition and explanation\nTailor the explanation to a "),
               Ph("level"), Lit(" audience.") >>]

\* mutant: level falls back to "beginner"
PromptDefaultsBeginner ==
    [code |-> JStr(""), language |-> JStr("unknown"), style |-> JStr("google"),
     focus |-> JStr("general"), concept |-> JStr(""), level |-> JStr("beginner")]

\* the fallback of each template argument (arguments.get(name, fallback))
PromptDefaults ==
    [code |-> JStr(""), language |-> JStr("unknown"), style |-> JStr("google"),
     focus |-> JStr("general"), concept |-> JStr(""), level |-> JStr("intermediate")]

RECURSIVE Format(_, _)
\* template.format(**values)
Format(template, values) ==
    IF template = <<>> THEN ""
    ELSE LET part == Head(template)
             text == IF part[1] = "L" THEN part[2] ELSE PyStr(values[part[2]])
         IN  text \o Format(Tail(template), values)

\* ------------------------------------------------------ the plain handlers
\* mutant: initialize reports the tools capability only once the provider
\* handle has been built
HandleInitializeWarm(params) ==
    Return(IF client.built THEN InitializeResult
           ELSE [InitializeResult EXCEPT !.capabilities.tools.listChanged = TRUE])

HandleInitialize(params) == Return(InitializeResult)

HandleListPrompts(params) == Return([prompts |-> PromptCatalog])

\* mutant: the catalog is one shared object, handed out again as its last
\* caller left it
HandleListToolsShared(params) ==
    Return(IF "tools" \in DOMAIN held THEN held ELSE [tools |-> ToolCatalog])

HandleListTools(params) == Return([tools |-> ToolCatalog])

HandleListResources(params) == Return([resources |-> ResourceCatalog])

\* mutant: whatever the name, a description and no messages are returned
\* instead of a refusal
HandleGetPromptLenient(params) ==
    IF params.t # "obj" THEN Return([description |-> "", messages |-> <<>>])
    ELSE Return([description |-> "Generated prompt for "
                                    \o PyStr(Get(params, "name", JStr(""))),
                 messages |-> <<>>])

HandleGetPrompt(params) ==
    IF params.t # "obj" THEN AttributeErrorGet(params)
    ELSE
    LET name == Get(params, "name", JStr(""))
        arguments == Get(params, "arguments", EmptyDict)
    IN  IF ~Hashable(name) THEN UnhashableError(name)
        ELSE IF ~(name.t = "str" /\ name.v \in DOMAIN PromptTemplates)
        THEN Raise("ValueError", "Unknown prompt: " \o PyStr(name))
        ELSE IF arguments.t # "obj" THEN AttributeErrorGet(arguments)
        ELSE
        LET values == [a \in DOMAIN PromptDefaults |->
                          Get(arguments, a, PromptDefaults[a])]
            prompt_text == Format(PromptTemplates[name.v], values)
        IN  Return([description |-> "Generated prompt for " \o name.v,
                    messages |-> << [role |-> "user",
                                     content |-> [type |-> "text",
                                                  text |-> prompt_text]] >>])

\* mutant: an unregistered uri is served empty contents
HandleReadResourceLenient(params) == Return([contents |-> <<>>])

HandleReadResource(params) ==
    IF params.t # "obj" THEN AttributeErrorGet(params)
    ELSE
    LET uri == Get(params, "uri", JStr(""))
    IN  IF ~Hashable(uri) THEN UnhashableError(uri)
        ELSE IF ~(uri.t = "str" /\ uri.v \in DOMAIN ResourceContents)
        THEN Raise("ValueError", "Unknown resource: " \o PyStr(uri))
        ELSE Return([contents |-> << [type |-> "text",
                                      text |-> ResourceContents[uri.v]] >>])

\* --------------------------------------------------------------- tools/call
ToolNames ==
    {"generate_code", "refactor_code", "debug_code", "optimize_performance",
     "generate_tests"}

\* the fallbacks of each tool's arguments.get calls
ToolDefaults ==
    [n \in ToolNames |->
     CASE n = "generate_code" ->
            [specification |-> JStr(""), language |-> JStr("python"),
             style |-> JStr("clean")]
       [] n = "refactor_code" ->
            [code |-> JStr(""), goal |-> JStr("maintainability"),
             language |-> JStr("python")]
       [] n = "debug_code" ->
            [code |-> JStr(""), error |-> JStr(""), context |-> JStr("")]
       [] n = "optimize_performance" ->
            [code |-> JStr(""), bottleneck |-> JStr(""), constraints |-> JStr("")]
       [] n = "generate_tests" ->
            [code |-> JStr(""), framework |-> JStr("pytest"),
             coverage |-> JStr("comprehensive")]]

\* the f-string of each tool, literals abridged as for the prompt templates
ToolTemplates ==
    [n \in ToolNames |->
     CASE n = "generate_code" ->
            << Lit("Generate "), Ph("language"),
               Lit(" code based on this specification:\n\n"), Ph("specification"),
               Lit("\n\nRequirements:\n- Use "), Ph("style"),
               Lit(" coding style\n- Follow best practices for "), Ph("language"),
               Lit("\n\nGenerate only the code, no explanations.") >>
       [] n = "refactor_code" ->
            << Lit("Refactor this "), Ph("language"), Lit(" code with focus on "),
               Ph("goal"), Lit(":\n\nOriginal code:\n"), Ph("language"), Lit("\n"),
               Ph("code"), Lit("\n\nRefactoring goals:\n- Improve "), Ph("goal"),
               Lit("\n- Follow "), Ph("language"), Lit(" best practices") >>
       [] n = "debug_code" ->
            << Lit("Help debug this code issue:\n\nCode:\n"), Ph("code"),
               Lit("\n\nError: "), Ph("error"), Lit("\n\nContext: "),
               Ph("context"), Lit("\n\nPlease:\n1. Identify the root cause") >>
       [] n = "optimize_performance" ->
            << Lit("Analyze and optimize this code for performance:\n\nCode:\n"),
               Ph("code"), Lit("\n\nKnown bottleneck: "), Ph("bottleneck"),
               Lit("\nConstraints: "), Ph("constraints"),
               Lit("\n\nPlease:\n1. Identify performance issues") >>
       [] n = "generate_tests" ->
            << Lit("Generate "), Ph("coverage"),
               Lit(" unit tests for this code using "), Ph("framework"),
               Lit(":\n\nCode to test:\n"), Ph("code"),
               Lit("\n\nTest requirements:\n- Use "), Ph("framework"),
               Lit(" framework\n- "), Ph("coverage"), Lit(" test coverage") >>]

\* mutant: the except branch reports a fixed text and drops str(e)
ToolErrorResultNoText(e) ==
    [content |-> << [type |-> "text", text |-> "Error"] >>, isError |-> TRUE]

\* the except branch of handle_call_tool: a result, not a raised failure
ToolErrorResult(e) ==
    [content |-> << [type |-> "text", text |-> "Error: " \o e.msg] >>,
     isError |-> TRUE]

\* str.strip(), as generate_completion of app.py applies it to the text
IsSpace(c) == c \in {" ", "\n", "\t", "\r"}
RECURSIVE LStrip(_)
LStrip(s) ==
    IF Len(s) > 0 /\ IsSpace(SubSeq(s, 1, 1))
    THEN LStrip(SubSeq(s, 2, Len(s))) ELSE s
RECURSIVE RStrip(_)
RStrip(s) ==
    IF Len(s) > 0 /\ IsSpace(SubSeq(s, Len(s), Len(s)))
    THEN RStrip(SubSeq(s, 1, Len(s) - 1)) ELSE s
Strip(s) == RStrip(LStrip(s))

\* mutant: the provider's text is stripped before it is returned
ToolTextResultStripped(text) ==
    [content |-> << [type |-> "text", text |-> Strip(text)] >>]

ToolTextResult(text) == [content |-> << [type |-> "text", text |-> text] >>]

\* no get_client call made
NoGet == [called |-> FALSE]

\* mutant: the tool name is looked at before the client handle is obtained
CallToolStartNameFirst(params, cl, e) ==
    IF params.t # "obj"
    THEN [kind |-> "raise", exc |-> AttributeErrorGet(params).exc,
          get |-> NoGet, client |-> cl, built |-> <<>>]
    ELSE
    LET name == Get(params, "name", JStr(""))
        arguments == Get(params, "arguments", EmptyDict)
        g == GetClient(cl, e)
        get == [called |-> TRUE, before |-> cl, env |-> e, out |-> g]
        ret(val) == [kind |-> "return", val |-> val, get |-> get,
                     client |-> g.client, built |-> g.built]
    IN  IF ~(name.t = "str" /\ name.v \in ToolNames)
        THEN [kind |-> "return",
              val |-> ToolErrorResult(Exc("ValueError",
                                          "Unknown tool: " \o PyStr(name))),
              get |-> NoGet, client |-> cl, built |-> <<>>]
        ELSE IF ~g.ok THEN ret(ToolErrorResult(g.exc))
        ELSE IF arguments.t # "obj"
        THEN ret(ToolErrorResult(AttributeErrorGet(arguments).exc))
        ELSE [kind |-> "await", name |-> name.v,
              prompt |-> Format(ToolTemplates[name.v],
                            [a \in DOMAIN ToolDefaults[name.v] |->
                                Get(arguments, a, ToolDefaults[name.v][a])]),
              get |-> get, client |-> g.client, built |-> g.built]

\* handle_call_tool up to its provider call.  kind "raise": the failure
\* leaves the handler; "return": the handler returns val; "await": the
\* provider is called with prompt.  get is the get_client outcome, if called.
CallToolStart(params, cl, e) ==
    IF params.t # "obj"
    THEN [kind |-> "raise", exc |-> AttributeErrorGet(params).exc,
          get |-> NoGet, client |-> cl, built |-> <<>>]
    ELSE
    LET name == Get(params, "name", JStr(""))
        arguments == Get(params, "arguments", EmptyDict)
        g == GetClient(cl, e)
        get == [called |-> TRUE, before |-> cl, env |-> e, out |-> g]
        ret(val) == [kind |-> "return", val |-> val, get |-> get,
                     client |-> g.client, built |-> g.built]
    IN  IF ~g.ok THEN ret(ToolErrorResult(g.exc))
        ELSE IF name.t = "str" /\ name.v \in ToolNames
        THEN IF arguments.t # "obj"
             THEN ret(ToolErrorResult(AttributeErrorGet(arguments).exc))
             ELSE [kind |-> "await", name |-> name.v,
                   prompt |-> Format(ToolTemplates[name.v],
                                 [a \in DOMAIN ToolDefaults[name.v] |->
                                     Get(arguments, a, ToolDefaults[name.v][a])]),
                   get |-> get, client |-> g.client, built |-> g.built]
        ELSE ret(ToolErrorResult(Exc("ValueError",
                                     "Unknown tool: " \o PyStr(name))))

\* handle_call_tool after client.chat.completions.create came back with o
CallToolFinish(o) ==
    IF o.ok THEN ToolTextResult(o.text)
    ELSE ToolErrorResult(Exc("Exception", o.msg))

\* ----------------------------------------------------------- handle_request
\* mutant: setup_handlers leaves initialize out of the table
MethodsNoInitialize ==
    {"prompts/list", "prompts/get", "tools/list", "tools/call",
     "resources/list", "resources/read"}

\* setup_handlers: the keys of self.handlers
Methods ==
    {"initialize", "prompts/list", "prompts/get", "tools/list", "tools/call",
     "resources/list", "resources/read"}

\* `method in self.handlers` for a hashable method
Registered(method) == method.t = "str" /\ method.v \in handlers

\* mutant: the table entries of prompts/list and tools/list are exchanged
HandlerMisrouted(m, params) ==
    CASE m = "initialize"     -> HandleInitialize(params)
      [] m = "prompts/list"   -> HandleListTools(params)
      [] m = "prompts/get"    -> HandleGetPrompt(params)
      [] m = "tools/list"     -> HandleListPrompts(params)
      [] m = "resources/list" -> HandleListResources(params)
      [] m = "resources/read" -> HandleReadResource(params)

\* self.handlers[m](params) for every handler but handle_call_tool
Handler(m, params) ==
    CASE m = "initialize"     -> HandleInitialize(params)
      [] m = "prompts/list"   -> HandleListPrompts(params)
      [] m = "prompts/get"    -> HandleGetPrompt(params)
      [] m = "tools/list"     -> HandleListTools(params)
      [] m = "resources/list" -> HandleListResources(params)
      [] m = "resources/read" -> HandleReadResource(params)

\* mutant: the message does not interpolate the method
UnknownMethodErrorNoName(method) == Exc("ValueError", "Unknown method")

\* raise ValueError(f"Unknown method: {method}")
UnknownMethodError(method) ==
    Exc("ValueError", "Unknown method: " \o PyStr(method))

\* request.get("id"): None, printed as null, when the key is absent
RequestId(request) == Get(request, "id", JNull)

\* mutant: a JSON-RPC 1.0 style envelope that always carries both members
ResultEnvelopeBoth(id, result) ==
    [jsonrpc |-> "2.0", id |-> id, result |-> result, error |-> JNull]

ResultEnvelope(id, result) == [jsonrpc |-> "2.0", id |-> id, result |-> result]

\* mutant: the except branch forgets the request id
ErrorEnvelopeNullId(id, e) ==
    [jsonrpc |-> "2.0", id |-> JNull, error |-> [code |-> -1, message |-> e.msg]]

\* mutant: the except branch answers with the JSON-RPC internal-error code
ErrorEnvelopeInternalError(id, e) ==
    [jsonrpc |-> "2.0", id |-> id, error |-> [code |-> -32603, message |-> e.msg]]

ErrorEnvelope(id, e) ==
    [jsonrpc |-> "2.0", id |-> id, error |-> [code |-> -1, message |-> e.msg]]

\* handle_request on the value json.loads returned, up to a provider call.
\* kind "raise": the failure leaves handle_request; "done": it returns
\* envelope; "await": handle_call_tool is waiting for the provider.
HandleRequest(request, cl, e) ==
    IF request.t # "obj"
    THEN \* request.get fails, and fails again inside the except branch
         [kind |-> "raise", exc |-> AttributeErrorGet(request).exc,
          invoked |-> <<>>, get |-> NoGet, client |-> cl, built |-> <<>>]
    ELSE
    LET method == Get(request, "method", JStr(""))
        params == Get(request, "params", EmptyDict)
        request_id == RequestId(request)
        fail(exc, inv, c) ==
            [kind |-> "done", envelope |-> ErrorEnvelope(RequestId(request), exc),
             invoked |-> inv, get |-> c.get, client |-> c.client,
             built |-> c.built]
        none == [get |-> NoGet, client |-> cl, built |-> <<>>]
        \* self.handlers[method](params)
        call == << [handler |-> method.v, params |-> params] >>
    IN  IF ~Hashable(method) THEN fail(UnhashableError(method).exc, <<>>, none)
        ELSE IF ~Registered(method)
        THEN fail(UnknownMethodError(method), <<>>, none)
        ELSE IF method.v = "tools/call"
        THEN LET c == CallToolStart(params, cl, e)
             IN  CASE c.kind = "raise" -> fail(c.exc, call, c)
                   [] c.kind = "return" ->
                        [kind |-> "done",
                         envelope |-> ResultEnvelope(request_id, c.val),
                         invoked |-> call, get |-> c.get,
                         client |-> c.client, built |-> c.built]
                   [] c.kind = "await" ->
                        [kind |-> "await", id |-> request_id, name |-> c.name,
                         prompt |-> c.prompt, invoked |-> call,
                         get |-> c.get, client |-> c.client, built |-> c.built]
        ELSE LET r == Handler(method.v, params)
             IN  IF r.ok
                 THEN [kind |-> "done",
                       envelope |-> ResultEnvelope(request_id, r.val),
                       invoked |-> call, get |-> NoGet,
                       client |-> cl, built |-> <<>>]
                 ELSE fail(r.exc, call, none)

\* ---------------------------------------------------------------------- run
\* an input line is either text that is not JSON (kind "text", which
\* json.loads rejects with JSONDecodeError; raw is what readline returned,
\* its newline included) or the text of a JSON value
TextLine(raw) == [k |-> "text", raw |-> raw]
JsonLine(val) == [k |-> "json", val |-> val]

\* mutant: the line is stripped before it is tested for end of input
EndOfInputStripped(l) == l.k = "text" /\ Strip(l.raw) = ""

\* `not line`: readline returned the empty string
EndOfInput(l) == l.k = "text" /\ l.raw = ""

\* json.loads(line.strip()); the text lines are those whose stripped text is
\* not JSON
JsonLoads(l) ==
    IF l.k = "json" THEN Return(l.val)
    ELSE Raise("JSONDecodeError", "Expecting value")

\* mutant: the parse failure is reported as an invalid request
ParseErrorEnvelopeInvalidRequest ==
    [jsonrpc |-> "2.0", id |-> JNull,
     error |-> [code |-> -32600, message |-> "Invalid Request"]]

ParseErrorEnvelope ==
    [jsonrpc |-> "2.0", id |-> JNull,
     error |-> [code |-> -32700, message |-> "Parse error"]]

\* --------------------------------------------------------------- the inputs
Absent == [t |-> "absent", v |-> ""]

\* the JSON object with the given members, leaving out the Absent ones
Members(pairs) ==
    LET keys == {pairs[i][1] : i \in {j \in 1..Len(pairs) : pairs[j][2] # Absent}}
    IN  JObj([key \in keys |->
                pairs[CHOOSE i \in 1..Len(pairs) : pairs[i][1] = key][2]])

Req(method, params, id) ==
    JsonLine(Members(<< <<"jsonrpc", JStr("2.0")>>, <<"id", id>>,
                        <<"method", method>>, <<"params", params>> >>))

NameArgs(name, arguments) ==
    Members(<< <<"name", name>>, <<"arguments", arguments>> >>)

\* every kind of method value, each with empty params and id 1
MethodSweep ==
    {Req(m, EmptyDict, JNum("1")) :
        m \in {JStr(k) : k \in Methods}
              \cup {JStr("nonexistent_method"), JStr("Initialize"),
                    JStr("tools/call/"), JStr("tools"), JNull, JArr("[1]"), Absent}}

\* requests without params, with a null id and with no id
IdSweep ==
    {Req(JStr("initialize"), Absent, Absent),
     Req(JStr("nonexistent_method"), Absent, JNull),
     Req(JStr("prompts/get"), Absent, Absent)}

ParamSweep ==
    {Req(JStr(m), JNull, JNum("2")) : m \in {"prompts/get", "tools/call"}}
    \cup {Req(JStr("prompts/get"), p, JNum("3")) :
            p \in {NameArgs(JStr("explain_concept"),
                            Members(<< <<"concept", JStr("recursion")>> >>)),
                   NameArgs(JStr("analyze_code"), Absent),
                   NameArgs(JStr("code_review"),
                            Members(<< <<"code", JNum("7")>>,
                                       <<"focus", JNull>> >>)),
                   NameArgs(JStr("generate_documentation"),
                            Members(<< <<"code", JStr("x = 1")>> >>)),
                   NameArgs(JStr("nope"), Absent),
                   NameArgs(JArr("[1]"), Absent),
                   NameArgs(JStr("explain_concept"), JArr("[1]"))}}
    \cup {Req(JStr("resources/read"), Members(<< <<"uri", u>> >>), JNum("4")) :
            u \in {JStr("coding-guidelines://python"),
                   JStr("patterns://design-patterns"),
                   JStr("nope://x"), JArr("[1]")}}
    \cup {Req(JStr("tools/call"), p, JStr("t")) :
            p \in {NameArgs(JStr("generate_code"),
                            Members(<< <<"specification", JStr("add two numbers")>> >>)),
                   NameArgs(JStr("debug_code"), Absent),
                   NameArgs(JStr("nope"), Absent),
                   NameArgs(JArr("[1]"), EmptyDict),
                   NameArgs(JStr("generate_code"), JArr("[1]"))}}

InputLines ==
    {TextLine("{\"method\": \n"), TextLine("\n"), TextLine("  \n")}
    \cup {JsonLine(v) : v \in {JArr("[1]"), JNum("5"), JStr("hi"), JNull}}
    \cup MethodSweep \cup IdSweep \cup ParamSweep

\* what client.chat.completions.create can do: return text or raise
ProviderOutcomes ==
    {[ok |-> TRUE, text |-> "def add(a, b):\n    return a + b\n"],
     [ok |-> FALSE, msg |-> "Connection error."],
     [ok |-> FALSE, msg |-> "Rate limit exceeded"]}

\* the settings of OPENAI_API_KEY: unset, empty, and a key
EnvValues == {EnvUnset, EnvVal(""), EnvVal("sk-test")}

\* ------------------------------------------------------------ the behaviour
NoLine == [k |-> "none"]
NoResp == [none |-> TRUE]
NoPending == [none |-> TRUE]
NoHeld == [none |-> TRUE]
NoOutcome == [none |-> TRUE]

Init ==
    /\ pc = "read"
    /\ line = NoLine
    /\ resp = NoResp
    /\ stdout = <<>>
    /\ nRead = 0
    /\ exit = "none"
    /\ client = NoneClient
    /\ env \in EnvValues
    /\ ctorCalls = <<>>
    /\ lastGet = NoGet
    /\ invoked = <<>>
    /\ providerCalls = 0
    /\ pending = NoPending
    /\ outcome = NoOutcome
    /\ held = NoHeld
    /\ handlers = Methods

\* the result object of a list handler, which its caller keeps a reference to
IsCatalog(r) == DOMAIN r \in {{"tools"}, {"prompts"}, {"resources"}}

\* print(json.dumps(envelope), flush=True) and back to the top of the loop
Write(envelope) ==
    /\ resp' = envelope
    /\ stdout' = Append(stdout, envelope)
    /\ pc' = "read"
    /\ held' = IF "result" \in DOMAIN envelope /\ IsCatalog(envelope.result)
               THEN envelope.result ELSE held

\* mutant: the next line is read while a provider call is still awaited,
\* as if handle_request were started as a task instead of awaited
ReadLinePipelined(l) ==
    /\ pc \in {"read", "provider"}
    /\ nRead < MaxLines
    /\ pc' = "dispatch"
    /\ line' = l
    /\ nRead' = nRead + 1
    /\ resp' = NoResp
    /\ invoked' = <<>>
    /\ providerCalls' = 0
    /\ lastGet' = NoGet
    /\ outcome' = NoOutcome
    /\ UNCHANGED <<stdout, exit, client, env, ctorCalls, pending, held,
                   handlers>>

\* readline returned a line, one of at most max; `if not line: break`
\* decides whether the loop body is entered
ReadLineUpTo(l, max) ==
    /\ pc = "read"
    /\ nRead < max
    /\ IF EndOfInput(l)
       THEN pc' = "done" /\ exit' = "eof"
       ELSE pc' = "dispatch" /\ exit' = exit
    /\ line' = l
    /\ nRead' = nRead + 1
    /\ resp' = NoResp
    /\ invoked' = <<>>
    /\ providerCalls' = 0
    /\ lastGet' = NoGet
    /\ outcome' = NoOutcome
    /\ UNCHANGED <<stdout, client, env, ctorCalls, pending, held,
                   handlers>>

ReadLine(l) == ReadLineUpTo(l, MaxLines)

\* readline returned "": break
ReadEOF ==
    /\ pc = "read"
    /\ EndOfInput(TextLine(""))
    /\ pc' = "done"
    /\ exit' = "eof"
    /\ UNCHANGED <<line, resp, stdout, nRead, client, env, ctorCalls, lastGet,
                   invoked, providerCalls, pending, outcome, held, handlers>>

\* KeyboardInterrupt while run waits for input or for the provider
Interrupt ==
    /\ pc \in {"read", "provider"}
    /\ pc' = "done"
    /\ exit' = "interrupt"
    /\ UNCHANGED <<line, resp, stdout, nRead, client, env, ctorCalls, lastGet,
                   invoked, providerCalls, pending, outcome, held, handlers>>

\* the body of the loop for one line, up to the provider call if there is one
Dispatch ==
    /\ pc = "dispatch"
    /\ LET parsed == JsonLoads(line)
       IN  IF ~parsed.ok
           THEN /\ Write(ParseErrorEnvelope)
                /\ UNCHANGED <<exit, client, ctorCalls, lastGet, invoked,
                               providerCalls, pending>>
           ELSE LET h == HandleRequest(parsed.val, client, env)
                IN  /\ client' = h.client
                    /\ ctorCalls' = ctorCalls \o h.built
                    /\ lastGet' = h.get
                    /\ invoked' = h.invoked
                    /\ CASE h.kind = "raise" ->
                              \* except Exception: "Server error", run returns
                              /\ pc' = "done"
                              /\ exit' = "error"
                              /\ UNCHANGED <<resp, stdout, providerCalls, pending, held>>
                         [] h.kind = "done" ->
                              /\ Write(h.envelope)
                              /\ UNCHANGED <<exit, providerCalls, pending>>
                         [] h.kind = "await" ->
                              /\ pc' = "provider"
                              /\ providerCalls' = providerCalls + 1
                              /\ pending' = [id |-> h.id, name |-> h.name,
                                             prompt |-> h.prompt]
                              /\ UNCHANGED <<resp, stdout, exit, held>>
    /\ UNCHANGED <<line, nRead, env, outcome, handlers>>

\* mutant: a failed provider call is made again instead of being reported
ProviderReturnRetry(o) ==
    /\ pc = "provider"
    /\ IF o.ok
       THEN /\ Write(ResultEnvelope(pending.id, CallToolFinish(o)))
            /\ pending' = NoPending
            /\ UNCHANGED providerCalls
       ELSE /\ providerCalls' = providerCalls + 1
            /\ UNCHANGED <<pc, resp, stdout, pending, held>>
    /\ outcome' = o
    /\ UNCHANGED <<line, nRead, exit, client, env, ctorCalls, lastGet, invoked,
                   handlers>>

\* client.chat.completions.create came back; the rest of the loop body
ProviderReturn(o) ==
    /\ pc = "provider"
    /\ Write(ResultEnvelope(pending.id, CallToolFinish(o)))
    /\ pending' = NoPending
    /\ outcome' = o
    /\ UNCHANGED <<line, nRead, exit, client, env, ctorCalls, lastGet, invoked,
                   providerCalls, handlers>>

\* the process environment is changed before a further request, one of at
\* most max, is read
SetEnvUpTo(e, max) ==
    /\ pc = "read"
    /\ nRead < max
    /\ e # env
    /\ env' = e
    /\ UNCHANGED <<pc, line, resp, stdout, nRead, exit, client, ctorCalls,
                   lastGet, invoked, providerCalls, pending, outcome, held,
                   handlers>>

SetEnv(e) == SetEnvUpTo(e, MaxLines)

\* the caller of a list handler empties the list of the catalog it was
\* given (list.clear() on the returned object) before the next request
CallerMutates ==
    /\ pc = "read"
    /\ held # NoHeld
    /\ \E k \in DOMAIN held : held[k] # <<>>
    /\ held' = [k \in DOMAIN held |-> <<>>]
    /\ UNCHANGED <<pc, line, resp, stdout, nRead, exit, client, env, ctorCalls,
                   lastGet, invoked, providerCalls, pending, outcome, handlers>>

Next ==
    \/ \E l \in InputLines : ReadLine(l)
    \/ ReadEOF
    \/ Interrupt
    \/ Dispatch
    \/ \E o \in ProviderOutcomes : ProviderReturn(o)
    \/ \E e \in EnvValues : SetEnv(e)
    \/ CallerMutates

Spec == Init /\ [][Next]_vars

\* list requests with other requests in between: three lines drawn from the
\* list methods, a request that fails and a tools/call
CatalogLines ==
    {Req(JStr(m), EmptyDict, JNum("1")) :
        m \in {"tools/list", "prompts/list", "resources/list",
               "nonexistent_method"}}
    \cup {Req(JStr("tools/call"),
               NameArgs(JStr("generate_code"),
                        Members(<< <<"specification", JStr("add two numbers")>> >>)),
               JStr("t"))}

NextCatalog ==
    \/ \E l \in CatalogLines : ReadLineUpTo(l, MaxCatalogLines)
    \/ Dispatch
    \/ \E o \in ProviderOutcomes : ProviderReturn(o)
    \/ CallerMutates

SpecCatalog == Init /\ [][NextCatalog]_vars

\* the life of the provider handle: three requests, tools/call or
\* tools/list, with the key set, removed or replaced between them
CredentialLines ==
    {Req(JStr("tools/call"),
         NameArgs(JStr("generate_code"),
                  Members(<< <<"specification", JStr("add two numbers")>> >>)),
         JStr("t")),
     Req(JStr("tools/list"), EmptyDict, JNum("1"))}

CredentialEnvValues == EnvValues \cup {EnvVal("sk-other")}

NextCredential ==
    \/ \E l \in CredentialLines : ReadLineUpTo(l, MaxCredentialLines)
    \/ Dispatch
    \/ \E o \in ProviderOutcomes : ProviderReturn(o)
    \/ \E e \in CredentialEnvValues : SetEnvUpTo(e, MaxCredentialLines)

SpecCredential == Init /\ [][NextCredential]_vars

\* ------------------------------------------------------------ properties
\* the current line held a JSON object, which run passed to handle_request
IsRequest(l) == l.k = "json" /\ l.val.t = "obj"

\* the members of the request on the current line, None read as null
IdOf(l) == IF "id" \in DOMAIN l.val.v THEN l.val.v["id"] ELSE JNull
MethodOf(l) == IF "method" \in DOMAIN l.val.v THEN l.val.v["method"] ELSE JStr("")
ParamsOf(l) == IF "params" \in DOMAIN l.val.v THEN l.val.v["params"] ELSE EmptyDict

Answered == resp # NoResp
IsError(e) == "error" \in DOMAIN e /\ "result" \notin DOMAIN e
IsResult(e) == "result" \in DOMAIN e /\ "error" \notin DOMAIN e

\* C1: handle_request answers every request object, and the response's id
\* is the request's id, null when the request has none.
C1_IdEchoed ==
    IsRequest(line) =>
        /\ pc = "read" => Answered
        /\ Answered => resp.id = IdOf(line)

\* a handler failed on a request with a non-null id, which the error echoes
C1_Witness ==
    /\ pc = "read" /\ IsRequest(line) /\ Answered
    /\ IsError(resp) /\ Len(invoked) = 1 /\ invoked[1].handler = "prompts/get"
    /\ IdOf(line) = JNum("3") /\ resp.id = JNum("3")

WellFormedEnvelope(e) ==
    /\ DOMAIN e \in {{"jsonrpc", "id", "result"}, {"jsonrpc", "id", "error"}}
    /\ e.jsonrpc = "2.0"
    /\ "error" \in DOMAIN e =>
          /\ {"code", "message"} \subseteq DOMAIN e.error
          /\ e.error.code \in Int
          /\ e.error.message \in STRING

\* C2: every envelope written has jsonrpc "2.0", an id, and exactly one of
\* result and error; an error has a numeric code and a string message.
C2_EnvelopeShape == \A i \in 1..Len(stdout) : WellFormedEnvelope(stdout[i])

\* a result envelope and the parse-error envelope have both been written
C2_Witness ==
    \E i, j \in 1..Len(stdout) :
        /\ IsResult(stdout[i])
        /\ IsError(stdout[j]) /\ stdout[j].error.code = -32700

C4_NonObjectIsParseError ==
    (line.k \in {"text", "json"} /\ ~IsRequest(line) /\ pc # "dispatch") =>
        /\ Answered /\ IsError(resp)
        /\ resp.id = JNull /\ resp.error.code = -32700

\* C5 (as claimed): after n lines have been consumed, n envelopes have been
\* written, whatever the lines held.
C5_OneEnvelopePerLine ==
    ((pc = "read" \/ pc = "done") /\ exit # "interrupt") =>
        /\ Len(stdout) = nRead
        /\ \A i \in 1..Len(stdout) : WellFormedEnvelope(stdout[i])

\* C6 (as claimed): the read loop ends only on EOF or an interrupt.
C6_LoopEndsOnlyOnEOF == pc = "done" => exit \in {"eof", "interrupt"}

\* C7 (as claimed): an unregistered method gets an error with the original
\* id, code -1 and a message containing the method; no handler is invoked.
C7_UnknownMethodNamed ==
    (IsRequest(line) /\ pc # "dispatch"
        /\ MethodOf(line) \notin {JStr(m) : m \in Methods}) =>
        /\ Answered /\ IsError(resp)
        /\ resp.id = IdOf(line) /\ resp.error.code = -1
        /\ Contains(resp.error.message, PyStr(MethodOf(line)))
        /\ invoked = <<>>

\* C7 (amended): an unregistered method gets an error with the original id
\* and code -1, and no handler is invoked; the message contains the method
\* as str() renders it unless the method is an array or an object, for which
\* the message is the "unhashable type" text naming the Python type instead.
C7_UnknownMethodAmended ==
    (IsRequest(line) /\ pc # "dispatch"
        /\ MethodOf(line) \notin {JStr(m) : m \in Methods}) =>
        /\ Answered /\ IsError(resp)
        /\ resp.id = IdOf(line) /\ resp.error.code = -1
        /\ invoked = <<>>
        /\ IF MethodOf(line).t \in {"arr", "obj"}
           THEN resp.error.message =
                    "unhashable type: '" \o PyTypeName(MethodOf(line)) \o "'"
           ELSE Contains(resp.error.message, PyStr(MethodOf(line)))

\* an unknown string method has been answered with its name in the message
C7_Witness ==
    /\ pc = "read" /\ IsRequest(line) /\ Answered
    /\ MethodOf(line) = JStr("nonexistent_method")
    /\ resp.error.message = "Unknown method: nonexistent_method"

\* C8 (as claimed): tools/call with a name outside the catalog gets an error
\* envelope with code -1 and no result.
C8_UnknownToolIsError ==
    (IsRequest(line) /\ Answered /\ MethodOf(line) = JStr("tools/call")
        /\ ParamsOf(line).t = "obj"
        /\ Get(ParamsOf(line), "name", JStr("")) \notin {JStr(n) : n \in ToolNames}) =>
        /\ IsError(resp) /\ resp.error.code = -1

\* C9: tools/call with a catalog name whose provider call fails gets a
\* result envelope with isError true and a text item holding the failure text.
C9_ProviderFailureIsResult ==
    (pc = "read" /\ outcome # NoOutcome /\ ~outcome.ok) =>
        /\ MethodOf(line) = JStr("tools/call")
        /\ Get(ParamsOf(line), "name", JStr("")) \in {JStr(n) : n \in ToolNames}
        /\ Answered /\ IsResult(resp) /\ resp.id = IdOf(line)
        /\ "isError" \in DOMAIN resp.result /\ resp.result.isError = TRUE
        /\ \E i \in 1..Len(resp.result.content) :
              /\ resp.result.content[i].type = "text"
              /\ Contains(resp.result.content[i].text, outcome.msg)

\* the provider call of a generate_code request failed and was answered
C9_Witness ==
    /\ pc = "read" /\ outcome # NoOutcome /\ ~outcome.ok
    /\ providerCalls = 1 /\ Answered /\ IsResult(resp)
    /\ resp.result.content[1].text = "Error: Connection error."

\* C10: get_client with no handle built and the key unset or empty raises a
\* ValueError naming OPENAI_API_KEY, constructs no client and leaves the
\* handle unset.
C10_MissingKeyRaises ==
    (lastGet.called /\ ~lastGet.before.built
        /\ (~lastGet.env.set \/ lastGet.env.val = "")) =>
        /\ ~lastGet.out.ok
        /\ lastGet.out.exc.type = "ValueError"
        /\ Contains(lastGet.out.exc.msg, "OPENAI_API_KEY")
        /\ lastGet.out.built = <<>> /\ ctorCalls = <<>>
        /\ ~lastGet.out.client.built /\ ~client.built

\* get_client was called with the variable set to the empty string
C10_Witness ==
    /\ lastGet.called /\ ~lastGet.before.built
    /\ lastGet.env.set /\ lastGet.env.val = ""
    /\ ~lastGet.out.ok /\ ~client.built

\* the envelope carries the text of get_client's ValueError
CarriesCredentialText(e) ==
    \/ /\ IsError(e)
       /\ Contains(e.error.message, "OPENAI_API_KEY environment variable must be set")
    \/ /\ IsResult(e) /\ "content" \in DOMAIN e.result
       /\ \E i \in 1..Len(e.result.content) :
             Contains(e.result.content[i].text,
                      "OPENAI_API_KEY environment variable must be set")

\* C11 (as claimed): with the API key absent, a tools/call request is
\* answered by exactly one envelope carrying the credential error text and
\* the loop returns to reading.
C11_MissingKeyAnswered ==
    [][(pc = "dispatch" /\ IsRequest(line)
            /\ MethodOf(line) = JStr("tools/call")
            /\ (~env.set \/ env.val = ""))
        => (/\ pc' = "read" /\ exit' = "none"
            /\ stdout' = Append(stdout, resp')
            /\ CarriesCredentialText(resp'))]_vars

\* C11 (amended): with the API key absent and no handle built yet, a
\* tools/call request whose params is a mapping is answered by exactly one
\* envelope, a result with isError true carrying the credential error text,
\* without a provider call, and the loop returns to reading.
C11_MissingKeyAnsweredAmended ==
    [][(pc = "dispatch" /\ IsRequest(line)
            /\ MethodOf(line) = JStr("tools/call")
            /\ ParamsOf(line).t = "obj"
            /\ ~client.built
            /\ (~env.set \/ env.val = ""))
        => (/\ pc' = "read" /\ exit' = "none"
            /\ stdout' = Append(stdout, resp')
            /\ IsResult(resp') /\ resp'.id = IdOf(line)
            /\ "isError" \in DOMAIN resp'.result /\ resp'.result.isError = TRUE
            /\ CarriesCredentialText(resp')
            /\ providerCalls' = 0 /\ ~client'.built)]_vars

\* a tools/call made without a key was answered with the credential text,
\* and the line after it was read and answered too
C11_Witness ==
    /\ nRead = 2 /\ pc = "read" /\ Len(stdout) = 2
    /\ IsResult(stdout[1]) /\ CarriesCredentialText(stdout[1])
    /\ IsResult(resp) /\ "protocolVersion" \in DOMAIN resp.result

\* C12: over any sequence of get_client calls the client is constructed at
\* most once, with the key the environment held at that call; every
\* successful call returns that handle, and a handle once set never changes.
C12_ConstructedOnce ==
    [][/\ Len(ctorCalls') <= 1
       /\ client.built => client' = client
       /\ client'.built => ctorCalls' = <<client'.api_key>>
       /\ (~client.built /\ client'.built) =>
             /\ env.set /\ env.val # ""
             /\ client'.api_key = env.val
       /\ (lastGet'.called /\ lastGet'.out.ok) =>
             /\ lastGet'.out.val = client'
             /\ lastGet'.before.built => lastGet'.out.val = lastGet'.before
      ]_vars

\* a second get_client call returned the handle the first call had built,
\* after the key had been taken out of the environment again
C12_Witness ==
    /\ nRead = 2 /\ lastGet.called /\ lastGet.before.built /\ lastGet.out.ok
    /\ ~lastGet.env.set
    /\ lastGet.out.val = client /\ ctorCalls = <<"sk-test">>

\* C13: a line is read only when every earlier line has been answered and
\* no handler or provider call is in progress; at most one handler and one
\* provider call run for a line; the k-th envelope written answers the k-th
\* line read.
C13_Sequential ==
    [][/\ nRead' # nRead =>
             /\ pc = "read" /\ nRead' = nRead + 1
             /\ Len(stdout) = nRead /\ pending = NoPending
       /\ stdout' # stdout =>
             /\ stdout' = Append(stdout, resp')
             /\ Len(stdout') = nRead /\ line' = line
             /\ IsRequest(line) => resp'.id = IdOf(line)
       /\ Len(invoked') <= 1 /\ providerCalls' <= 1
       /\ pc' = "provider" => (pending' # NoPending /\ providerCalls' = 1)
       /\ pc' \in {"read", "dispatch"} => pending' = NoPending
      ]_vars

\* two lines were read and answered in order, the second through a
\* provider call
C13_Witness ==
    /\ nRead = 2 /\ pc = "read" /\ Len(stdout) = 2
    /\ stdout[1].id = JNum("1") /\ stdout[2].id = JStr("t")
    /\ outcome # NoOutcome /\ providerCalls = 1

\* C14: a tools/call request makes at most one provider call; when that call
\* fails, the failure is reported in exactly one envelope, no further call
\* is made, and the loop returns to reading.
C14_NoRetry ==
    [][/\ providerCalls' <= 1
       /\ (pc = "provider" /\ outcome' # NoOutcome /\ ~outcome'.ok) =>
             /\ pc' = "read" /\ exit' = "none"
             /\ providerCalls' = providerCalls
             /\ stdout' = Append(stdout, resp')
             /\ IsResult(resp') /\ resp'.id = IdOf(line)
             /\ resp'.result.content[1].text = "Error: " \o outcome'.msg
       /\ (outcome # NoOutcome /\ nRead' = nRead) =>
             (outcome' = outcome /\ providerCalls' = providerCalls
                /\ stdout' = stdout)
      ]_vars

\* a provider failure was reported once and the following line was answered
C14_Witness ==
    /\ nRead = 2 /\ pc = "read" /\ Len(stdout) = 2
    /\ IsResult(stdout[1]) /\ "isError" \in DOMAIN stdout[1].result
    /\ stdout[1].result.content[1].text = "Error: Rate limit exceeded"
    /\ IsResult(resp) /\ "tools" \in DOMAIN resp.result

\* C15 (as claimed): when run has ended on a finite input, other than by an
\* interrupt, every line of that input has its envelope; and the step that
\* ends run, on EOF or on an interrupt, writes nothing.
C15_EndOfInput ==
    /\ []((pc = "done" /\ exit # "interrupt") => Len(stdout) = nRead)
    /\ [][(pc # "done" /\ pc' = "done") => stdout' = stdout]_vars

\* the key under which a list method returns its catalog
CatalogKey(m) ==
    CASE m = JStr("tools/list") -> "tools"
      [] m = JStr("prompts/list") -> "prompts"
      [] m = JStr("resources/list") -> "resources"

\* C16: a list request is always answered with a non-empty catalog under
\* its own key, and any two catalogs of the same kind written so far are
\* equal, whatever was handled between them and whatever the caller did to
\* the catalog object it was given.
C16_CatalogsIdentical ==
    /\ [](\A i, j \in 1..Len(stdout) :
            (/\ IsResult(stdout[i]) /\ IsResult(stdout[j])
             /\ IsCatalog(stdout[i].result)
             /\ DOMAIN stdout[i].result = DOMAIN stdout[j].result)
            => stdout[i].result = stdout[j].result)
    /\ [][(/\ pc = "dispatch" /\ IsRequest(line)
           /\ MethodOf(line) \in {JStr("tools/list"), JStr("prompts/list"),
                                  JStr("resources/list")})
          => /\ stdout' = Append(stdout, resp') /\ IsResult(resp')
             /\ DOMAIN resp'.result = {CatalogKey(MethodOf(line))}
             /\ resp'.result[CatalogKey(MethodOf(line))] # <<>>]_vars

\* tools/list, then a tools/call that failed, then tools/list again gave the
\* same catalog, and the caller has emptied the object it was handed
C16_Witness ==
    /\ nRead = 3 /\ pc = "read" /\ Len(stdout) = 3
    /\ IsResult(stdout[1]) /\ DOMAIN stdout[1].result = {"tools"}
    /\ IsResult(stdout[2]) /\ "isError" \in DOMAIN stdout[2].result
    /\ IsResult(stdout[3]) /\ stdout[3].result = stdout[1].result
    /\ Len(stdout[3].result.tools) = 5
    /\ held = [tools |-> <<>>]

\* C17: when the provider call of a tools/call request returns text, the
\* envelope written is a result with the request's id whose only member is
\* a content list of one text item holding that text unchanged, and the
\* provider has been called once for the request.
C17_ProviderTextVerbatim ==
    [][(pc = "provider" /\ outcome' # NoOutcome /\ outcome'.ok) =>
          /\ MethodOf(line) = JStr("tools/call")
          /\ ParamsOf(line).v["name"] \in {JStr(n) : n \in ToolNames}
          /\ stdout' = Append(stdout, resp') /\ pc' = "read"
          /\ IsResult(resp') /\ resp'.id = IdOf(line)
          /\ resp'.result =
                [content |-> << [type |-> "text", text |-> outcome'.text] >>]
          /\ providerCalls = 1 /\ providerCalls' = 1]_vars

\* generate_code was answered with the provider's text, trailing newline
\* included
C17_Witness ==
    /\ pc = "read" /\ outcome # NoOutcome /\ outcome.ok
    /\ IsResult(resp) /\ resp.id = JStr("t")
    /\ Len(resp.result.content) = 1
    /\ resp.result.content[1].text = "def add(a, b):\n    return a + b\n"
    /\ "isError" \notin DOMAIN resp.result

\* the name of a prompts/get request and the uri of a resources/read
\* request, Absent when params is no object or has no such member
ParamOf(l, key) ==
    IF ParamsOf(l).t = "obj" /\ key \in DOMAIN ParamsOf(l).v
    THEN ParamsOf(l).v[key] ELSE Absent

\* C18: a prompts/get request whose name is not a prompt of the catalog, or
\* which has no name, is answered with an error envelope with code -1 and
\* the request's id, and no result.
C18_UnknownPrompt ==
    (/\ IsRequest(line) /\ pc # "dispatch"
     /\ MethodOf(line) = JStr("prompts/get")
     /\ ParamOf(line, "name") \notin
            {JStr(PromptCatalog[i].name) : i \in 1..Len(PromptCatalog)}) =>
        /\ Answered /\ IsError(resp)
        /\ resp.id = IdOf(line) /\ resp.error.code = -1
        /\ stdout[Len(stdout)] = resp

\* a request with no params and no id, then one with the name [1], have
\* both been refused
C18_Witness ==
    /\ nRead = 2 /\ pc = "read" /\ IsRequest(line)
    /\ MethodOf(line) = JStr("prompts/get")
    /\ ParamOf(line, "name") = JArr("[1]")
    /\ IsError(resp) /\ resp.id = JNum("3")
    /\ IsError(stdout[1]) /\ stdout[1].id = JNull
    /\ stdout[1].error.message = "Unknown prompt: "

\* C19: a resources/read request whose uri is not a registered resource
\* uri, or which has no uri, is answered with an error envelope with code
\* -1 and the request's id, and no result.
C19_UnknownResource ==
    (/\ IsRequest(line) /\ pc # "dispatch"
     /\ MethodOf(line) = JStr("resources/read")
     /\ ParamOf(line, "uri") \notin
            {JStr(ResourceCatalog[i].uri) : i \in 1..Len(ResourceCatalog)}) =>
        /\ Answered /\ IsError(resp)
        /\ resp.id = IdOf(line) /\ resp.error.code = -1
        /\ stdout[Len(stdout)] = resp

\* a request with no uri, then one with an unregistered uri, have both been
\* refused
C19_Witness ==
    /\ nRead = 2 /\ pc = "read" /\ IsRequest(line)
    /\ MethodOf(line) = JStr("resources/read")
    /\ ParamOf(line, "uri") = JStr("nope://x")
    /\ IsError(resp) /\ resp.id = JNum("4")
    /\ resp.error.message = "Unknown resource: nope://x"
    /\ IsError(stdout[1]) /\ stdout[1].id = JNum("1")
    /\ stdout[1].error.message = "Unknown resource: "

\* the fallbacks as the specification lists them
Fallbacks ==
    [language |-> "unknown", style |-> "google", focus |-> "general",
     level |-> "intermediate", code |-> "", concept |-> ""]

\* the prompt text expected for a prompts/get request: the template of its
\* name with every placeholder replaced by the argument of that name, or by
\* the fallback when arguments has no such member
ExpectedPromptText(l) ==
    LET a == ParamOf(l, "arguments")
        given == IF a.t = "obj" THEN a.v ELSE EmptyDict.v
    IN  Format(PromptTemplates[ParamOf(l, "name").v],
               [k \in DOMAIN Fallbacks |->
                   IF k \in DOMAIN given THEN given[k] ELSE JStr(Fallbacks[k])])

IsCatalogPromptRequest(l) ==
    /\ IsRequest(l) /\ MethodOf(l) = JStr("prompts/get")
    /\ ParamOf(l, "name") \in
          {JStr(PromptCatalog[i].name) : i \in 1..Len(PromptCatalog)}

PromptFilled ==
    /\ Answered /\ IsResult(resp) /\ resp.id = IdOf(line)
    /\ Len(resp.result.messages) = 1
    /\ resp.result.messages[1].content.text = ExpectedPromptText(line)
    /\ (/\ ParamOf(line, "name") = JStr("explain_concept")
        /\ ParamOf(line, "arguments")
              = Members(<< <<"concept", JStr("recursion")>> >>))
       => /\ Contains(resp.result.messages[1].content.text, "recursion")
          /\ Contains(resp.result.messages[1].content.text, "intermediate")

\* C20 (as claimed): every prompts/get request with a catalog name is
\* answered with the template filled from the arguments and the fallbacks.
C20_PromptFilled ==
    (IsCatalogPromptRequest(line) /\ pc # "dispatch") => PromptFilled

\* C20 (amended): so it is when arguments is an object or is not given;
\* arguments of any other type are answered with an error envelope with
\* code -1 and the request's id.
C20_PromptFilledAmended ==
    (IsCatalogPromptRequest(line) /\ pc # "dispatch") =>
        IF ParamOf(line, "arguments").t \in {"obj", "absent"}
        THEN PromptFilled
        ELSE /\ Answered /\ IsError(resp)
             /\ resp.id = IdOf(line) /\ resp.error.code = -1

\* generate_documentation with only code was filled with the style
\* fallback, then explain_concept with only concept with the level fallback
C20_Witness ==
    /\ nRead = 2 /\ pc = "read" /\ Len(stdout) = 2
    /\ IsResult(stdout[1])
    /\ "messages" \in DOMAIN stdout[1].result
    /\ Contains(stdout[1].result.messages[1].content.text, "using google style")
    /\ Contains(stdout[1].result.messages[1].content.text, "x = 1")
    /\ IsCatalogPromptRequest(line)
    /\ ParamOf(line, "name") = JStr("explain_concept")
    /\ IsResult(resp)
    /\ Contains(resp.result.messages[1].content.text,
                "concept \"recursion\" at a intermediate level")

IsRegisteredRead(l) ==
    /\ IsRequest(l) /\ MethodOf(l) = JStr("resources/read")
    /\ ParamOf(l, "uri") \in
          {JStr(ResourceCatalog[i].uri) : i \in 1..Len(ResourceCatalog)}

\* the envelope is a result holding one text item
IsContents(e) ==
    /\ IsResult(e) /\ DOMAIN e.result = {"contents"}
    /\ Len(e.result.contents) = 1
    /\ DOMAIN e.result.contents[1] = {"type", "text"}
    /\ e.result.contents[1].type = "text"

\* C21: a resources/read request with a registered uri is answered with a
\* result holding exactly one text item, the text registered for the uri;
\* the python guidelines contain "Python Coding Guidelines" and "PEP 8",
\* the design patterns "Design Patterns" and "Singleton"; and an earlier
\* answer to the same request in this run is the same envelope.
C21_ResourceContent ==
    (IsRegisteredRead(line) /\ pc # "dispatch") =>
        LET text == resp.result.contents[1].text
            uri == ParamOf(line, "uri").v
        IN  /\ Answered /\ IsContents(resp) /\ resp.id = IdOf(line)
            /\ stdout[Len(stdout)] = resp
            /\ text = ResourceContents[uri]
            /\ uri = "coding-guidelines://python" =>
                  (Contains(text, "Python Coding Guidelines")
                     /\ Contains(text, "PEP 8"))
            /\ uri = "patterns://design-patterns" =>
                  (Contains(text, "Design Patterns")
                     /\ Contains(text, "Singleton"))
            /\ \A i \in 1..(Len(stdout) - 1) :
                  (IsContents(stdout[i])
                     /\ Contains(stdout[i].result.contents[1].text,
                                 SubSeq(text, 1, 12)))
                  => stdout[i] = resp

\* the python guidelines were read twice and came back the same
C21_Witness ==
    /\ nRead = 2 /\ pc = "read" /\ Len(stdout) = 2
    /\ IsRegisteredRead(line)
    /\ ParamOf(line, "uri") = JStr("coding-guidelines://python")
    /\ IsContents(stdout[1]) /\ stdout[1] = stdout[2]
    /\ Contains(stdout[2].result.contents[1].text, "PEP 8")

\* what the handler registered for the method of request l did when called
\* with the request's params: Return(value) or Raise(...)
HandlerOutcome(l) ==
    LET m == MethodOf(l).v
        p == ParamsOf(l)
    IN  CASE m = "initialize"     -> HandleInitialize(p)
          [] m = "prompts/list"   -> HandleListPrompts(p)
          [] m = "prompts/get"    -> HandleGetPrompt(p)
          [] m = "tools/list"     -> HandleListTools(p)
          [] m = "resources/list" -> HandleListResources(p)
          [] m = "resources/read" -> HandleReadResource(p)
          [] m = "tools/call" ->
                IF p.t # "obj" THEN AttributeErrorGet(p)
                ELSE IF outcome # NoOutcome THEN Return(CallToolFinish(outcome))
                ELSE Return(CallToolStart(p, lastGet.before, lastGet.env).val)

\* C22: for a request with one of the seven methods, the handler of that
\* method and no other has been called, once, with the request's params
\* (the empty mapping when the request has none); once the request is
\* answered, the envelope's result is what the handler returned, or its
\* error is code -1 with the message of the handler's failure.
C22_RoutesToHandler ==
    (/\ IsRequest(line) /\ pc # "dispatch"
     /\ MethodOf(line) \in {JStr(m) : m \in Methods}) =>
        /\ invoked = << [handler |-> MethodOf(line).v,
                         params |-> IF "params" \in DOMAIN line.val.v
                                    THEN line.val.v["params"]
                                    ELSE JObj(<<>>)] >>
        /\ Answered =>
              LET r == HandlerOutcome(line)
              IN  IF r.ok
                  THEN resp = [jsonrpc |-> "2.0", id |-> IdOf(line),
                               result |-> r.val]
                  ELSE resp = [jsonrpc |-> "2.0", id |-> IdOf(line),
                               error |-> [code |-> -1, message |-> r.exc.msg]]

\* initialize without params was handed the empty mapping and answered with
\* its result; then resources/read failed inside its handler
C22_Witness ==
    /\ nRead = 2 /\ pc = "read" /\ Len(stdout) = 2
    /\ IsResult(stdout[1]) /\ stdout[1].result = InitializeResult
    /\ stdout[1].id = JNull
    /\ IsRequest(line) /\ "params" \in DOMAIN line.val.v
    /\ Len(invoked) = 1 /\ invoked[1].handler = "resources/read"
    /\ invoked[1].params = line.val.v["params"]
    /\ IsError(resp) /\ resp.error.message = "Unknown resource: nope://x"

\* the seven method names of the specification
SevenMethods ==
    {"initialize", "prompts/list", "prompts/get", "tools/list", "tools/call",
     "resources/list", "resources/read"}

\* C23: the routing table holds exactly the seven methods and no step
\* changes it; a request whose method is one of the seven strings has its
\* handler called, and a request whose method is any other string (or is
\* missing) has no handler called and is answered "Unknown method".
C23_ExactRouting ==
    /\ [](handlers = SevenMethods)
    /\ [][handlers' = handlers]_vars
    /\ []((/\ IsRequest(line) /\ pc # "dispatch"
           /\ MethodOf(line).t = "str") =>
            IF MethodOf(line).v \in SevenMethods
            THEN Len(invoked) = 1 /\ invoked[1].handler = MethodOf(line).v
            ELSE /\ invoked = <<>>
                 /\ Answered /\ IsError(resp) /\ resp.error.code = -1
                 /\ resp.error.message
                        = "Unknown method: " \o MethodOf(line).v)

\* "Initialize" and then "tools/call/" were both refused as unknown
C23_Witness ==
    /\ nRead = 2 /\ pc = "read" /\ Len(stdout) = 2
    /\ IsError(stdout[1])
    /\ stdout[1].error.message = "Unknown method: Initialize"
    /\ IsRequest(line) /\ MethodOf(line) = JStr("tools/call/")
    /\ IsError(resp) /\ resp.error.message = "Unknown method: tools/call/"
    /\ invoked = <<>> /\ handlers = SevenMethods

\* the results that do not depend on params
ConstantResults ==
    [m \in {"initialize", "prompts/list", "tools/list", "resources/list"} |->
        CASE m = "initialize"     -> InitializeResult
          [] m = "prompts/list"   -> [prompts |-> PromptCatalog]
          [] m = "tools/list"     -> [tools |-> ToolCatalog]
          [] m = "resources/list" -> [resources |-> ResourceCatalog]]

\* C24: the step that handles a request whose method is not tools/call
\* leaves the provider handle as it was, builds no handle, calls neither
\* get_client nor the provider, and writes the envelope a newly constructed
\* server would write for the same request: for initialize and the list
\* methods the fixed result, whatever was handled before.
C24_OtherMethodsPure ==
    [][(/\ pc = "dispatch" /\ IsRequest(line)
        /\ MethodOf(line) # JStr("tools/call")) =>
          /\ client' = client /\ ctorCalls' = ctorCalls
          /\ ~lastGet'.called
          /\ providerCalls' = 0 /\ pending' = NoPending /\ pc' = "read"
          /\ stdout' = Append(stdout, resp')
          /\ resp' = HandleRequest(line.val, NoneClient, EnvUnset).envelope
          /\ MethodOf(line) \in {JStr(m) : m \in DOMAIN ConstantResults} =>
                resp' = [jsonrpc |-> "2.0", id |-> IdOf(line),
                         result |-> ConstantResults[MethodOf(line).v]]
      ]_vars

\* after a tools/call that built the handle, initialize was answered as
\* ever and the handle is the one built before
C24_Witness ==
    /\ nRead = 2 /\ pc = "read" /\ Len(stdout) = 2
    /\ client.built /\ ctorCalls = <<"sk-test">>
    /\ IsResult(stdout[1]) /\ "content" \in DOMAIN stdout[1].result
    /\ IsRequest(line) /\ MethodOf(line) = JStr("initialize")
    /\ resp = [jsonrpc |-> "2.0", id |-> JNum("1"), result |-> InitializeResult]
    /\ ~lastGet.called /\ providerCalls = 0

\* C25 (as claimed): what the standalone server answers to the list
\* methods and to resources/read is what the catalogs of the
\* framework-backed server hold (prompt names and arguments, tool names and
\* input schemas, resource entries, resource texts), and both servers have
\* branches for the same prompt names, tool names and uris.
C25_SameCatalogs ==
    /\ DOMAIN PromptTemplates = McpPromptNames
    /\ ToolNames = McpToolNames
    /\ DOMAIN ResourceContents = DOMAIN McpResourceContents
    /\ (IsRequest(line) /\ Answered /\ IsResult(resp)) =>
          /\ MethodOf(line) = JStr("prompts/list") =>
                [i \in 1..Len(resp.result.prompts) |->
                    <<resp.result.prompts[i].name,
                      resp.result.prompts[i].arguments>>]
                = [i \in 1..Len(McpPromptCatalog) |->
                    <<McpPromptCatalog[i].name, McpPromptCatalog[i].arguments>>]
          /\ MethodOf(line) = JStr("tools/list") =>
                resp.result.tools = McpToolCatalog
          /\ MethodOf(line) = JStr("resources/list") =>
                resp.result.resources = McpResourceCatalog
          /\ IsRegisteredRead(line) =>
                resp.result.contents[1].text
                    = McpResourceContents[ParamOf(line, "uri").v]

\* the request on line l fails outside handle_call_tool's own try block: its
\* method is not a key of the table, or the handler of its method raises
FailsOutsideTool(l) ==
    \/ ~(MethodOf(l).t = "str" /\ MethodOf(l).v \in SevenMethods)
    \/ MethodOf(l) = JStr("tools/call") /\ ParamsOf(l).t # "obj"
    \/ /\ MethodOf(l).v \in {"prompts/get", "resources/read"}
       /\ ~HandlerOutcome(l).ok

\* C26: no exception leaves handle_request when the request is a JSON
\* object: the step that handles it either writes a well-formed envelope
\* or waits for the provider, and never ends run; when the request fails
\* outside the tool handler's own try block, the envelope is an error with
\* code -1 and the request's id.
C26_NeverRaises ==
    [][(pc = "dispatch" /\ IsRequest(line)) =>
          /\ exit' = "none" /\ pc' \in {"read", "provider"}
          /\ pc' = "provider" <=> ~Answered'
          /\ pc' = "read" =>
                /\ stdout' = Append(stdout, resp')
                /\ WellFormedEnvelope(resp') /\ resp'.id = IdOf(line)
                /\ FailsOutsideTool(line) =>
                      (IsError(resp') /\ resp'.error.code = -1)
                /\ IsError(resp') => FailsOutsideTool(line)
      ]_vars

\* a request with an unhashable method, then a prompts/get whose arguments
\* are a list, were both answered with code -1
C26_Witness ==
    /\ nRead = 2 /\ pc = "read" /\ Len(stdout) = 2 /\ exit = "none"
    /\ IsError(stdout[1])
    /\ stdout[1].error.message = "unhashable type: 'list'"
    /\ IsRequest(line) /\ ParamOf(line, "arguments") = JArr("[1]")
    /\ MethodOf(line) = JStr("prompts/get")
    /\ IsError(resp) /\ resp.error.code = -1
    /\ resp.error.message = "'list' object has no attribute 'get'"

\* C27: while OPENAI_API_KEY is unset or empty and no handle exists, a
\* tools/call request whose params is an object, whatever its name (one of
\* the five tools, any other value, or none), is answered with the result
\* {content: [the credential error text], isError: true}, never with an
\* "Unknown tool" text; the provider is not called and the handle stays
\* unset.
C27_ClientBeforeName ==
    [][(/\ pc = "dispatch" /\ IsRequest(line)
        /\ MethodOf(line) = JStr("tools/call") /\ ParamsOf(line).t = "obj"
        /\ (~env.set \/ env.val = "") /\ ~client.built) =>
          /\ pc' = "read" /\ stdout' = Append(stdout, resp')
          /\ resp' = [jsonrpc |-> "2.0", id |-> IdOf(line),
                      result |->
                        [content |-> << [type |-> "text",
                                         text |-> "Error: OPENAI_API_KEY environment variable must be set"] >>,
                         isError |-> TRUE]]
          /\ lastGet'.called /\ ~lastGet'.out.ok
          /\ providerCalls' = 0 /\ pending' = NoPending
          /\ client' = NoneClient /\ ctorCalls' = <<>>
      ]_vars

\* without a key, two tools/call requests, the second for the unknown tool
\* "nope", got the same credential error
C27_Witness ==
    /\ nRead = 2 /\ pc = "read" /\ Len(stdout) = 2
    /\ ~env.set /\ ~client.built /\ ctorCalls = <<>>
    /\ IsRequest(line) /\ MethodOf(line) = JStr("tools/call")
    /\ ParamOf(line, "name") = JStr("nope")
    /\ IsResult(resp) /\ CarriesCredentialText(resp)
    /\ stdout[1] = stdout[2]
    /\ outcome = NoOutcome /\ providerCalls = 0

\* C28: whenever get_client is called while no handle exists and the key is
\* present, it builds the handle from that key and returns it, also when
\* an earlier call has failed for want of a key; and whenever it is called
\* once a handle exists, it returns that handle and builds nothing,
\* whatever the environment holds by then.
C28_FailureNotRemembered ==
    [][(pc = "dispatch" /\ lastGet'.called) =>
          /\ lastGet'.before = client /\ lastGet'.env = env
          /\ (~client.built /\ env.set /\ env.val # "") =>
                /\ lastGet'.out.ok /\ lastGet'.out.val = Handle(env.val)
                /\ client' = Handle(env.val) /\ ctorCalls' = <<env.val>>
          /\ client.built =>
                /\ lastGet'.out.ok /\ lastGet'.out.val = client
                /\ client' = client /\ ctorCalls' = ctorCalls
      ]_vars

\* the first tools/call failed for want of a key, the second built the
\* handle from "sk-test", and the third was handed the same handle while
\* the environment held another key
C28_Witness ==
    /\ nRead = 3 /\ Len(stdout) >= 2
    /\ IsResult(stdout[1]) /\ CarriesCredentialText(stdout[1])
    /\ IsResult(stdout[2]) /\ "isError" \notin DOMAIN stdout[2].result
    /\ "content" \in DOMAIN stdout[2].result
    /\ lastGet.called /\ lastGet.before = Handle("sk-test")
    /\ lastGet.env = EnvVal("sk-other")
    /\ lastGet.out.ok /\ lastGet.out.val = Handle("sk-test")
    /\ client = Handle("sk-test") /\ ctorCalls = <<"sk-test">>

\* the names and uris the three list handlers return
ListedPrompts == {PromptCatalog[i].name : i \in 1..Len(PromptCatalog)}
ListedTools == {ToolCatalog[i].name : i \in 1..Len(ToolCatalog)}
ListedResources == {ResourceCatalog[i].uri : i \in 1..Len(ResourceCatalog)}

\* C29: the names prompts/list returns are the names prompts/get has a
\* template for, the names tools/list returns are the names tools/call
\* builds a provider prompt for, and the uris resources/list returns are
\* the uris resources/read has a text for; so a prompts/get or
\* resources/read request with well-formed params gets a result exactly
\* when its name or uri is listed, and a tools/call that got its client and
\* has well-formed arguments reaches the provider exactly when its name is
\* listed.
C29_CatalogsMatchHandlers ==
    /\ ListedPrompts = DOMAIN PromptTemplates
    /\ ListedTools = ToolNames /\ ListedTools = DOMAIN ToolTemplates
    /\ ListedResources = DOMAIN ResourceContents
    /\ (IsRequest(line) /\ pc # "dispatch" /\ ParamsOf(line).t = "obj"
          /\ ParamOf(line, "arguments").t \in {"obj", "absent"}) =>
          /\ (MethodOf(line) = JStr("prompts/get") /\ Answered) =>
                (IsResult(resp) <=>
                    ParamOf(line, "name") \in {JStr(n) : n \in ListedPrompts})
          /\ (MethodOf(line) = JStr("resources/read") /\ Answered) =>
                (IsResult(resp) <=>
                    ParamOf(line, "uri") \in {JStr(u) : u \in ListedResources})
          /\ (MethodOf(line) = JStr("tools/call")
                /\ lastGet.called /\ lastGet.out.ok) =>
                (providerCalls = 1 <=>
                    ParamOf(line, "name") \in {JStr(n) : n \in ListedTools})

\* prompts/list was answered, and then a prompts/get for the last name it
\* lists got its prompt
C29_Witness ==
    /\ nRead = 2 /\ pc = "read" /\ Len(stdout) = 2
    /\ IsResult(stdout[1]) /\ DOMAIN stdout[1].result = {"prompts"}
    /\ IsRequest(line) /\ MethodOf(line) = JStr("prompts/get")
    /\ ParamOf(line, "name")
          = JStr(stdout[1].result.prompts[Len(stdout[1].result.prompts)].name)
    /\ IsResult(resp) /\ "messages" \in DOMAIN resp.result


\* an input line that is not the zero-length read but has nothing besides
\* whitespace and its newline
IsBlankLine(l) == l.k = "text" /\ l.raw # "" /\ Strip(l.raw) = ""

\* C30: only a zero-length read ends the loop: a line that is empty or
\* whitespace-only apart from its newline enters the loop body, is answered
\* with the ParseError envelope (id null, code -32700), and the loop goes on
\* to read the next line; the loop never ends by end of input on a step that
\* consumed a line.
C30_BlankLineIsParseError ==
    [][ /\ (pc = "read" /\ nRead' = nRead + 1 /\ IsBlankLine(line'))
              => (pc' = "dispatch" /\ exit' = "none")
        /\ (pc = "dispatch" /\ pc' # "dispatch" /\ IsBlankLine(line))
              => /\ pc' = "read" /\ exit' = "none"
                 /\ IsError(resp') /\ resp'.id = JNull
                 /\ resp'.error.code = -32700
                 /\ stdout' = Append(stdout, resp')
        /\ (exit = "none" /\ exit' = "eof") => nRead' = nRead
      ]_vars

\* a blank line read after an answered line got the ParseError envelope and
\* the loop is back at readline, not ended
C30_Witness ==
    /\ nRead = 2 /\ pc = "read" /\ exit = "none" /\ Len(stdout) = 2
    /\ IsBlankLine(line)
    /\ IsError(stdout[2]) /\ stdout[2].id = JNull
    /\ stdout[2].error.code = -32700

=============================================================================
